---------------------------- MODULE Spec2Model ----------------------------
(***************************************************************************)
(* fast-async-mutex: the ticket mutex (src/src/mutex.rs) and the unordered *)
(* mutex (src/src/mutex_unordered.rs), modelled at the grain of their      *)
(* atomic operations.                                                      *)
(*                                                                         *)
(* A request is one call of lock()/lock_owned() together with the future   *)
(* and the guard it yields.  Every request is awaited by a task of its     *)
(* own, so a request also stands for the waker of its task.  One poll is   *)
(* up to two atomic steps (the load or swap of the admission state, then   *)
(* the store of the waker); one unlock is two atomic steps (the update of  *)
(* the admission state, then the swap of the wake slot and the wake).      *)
(***************************************************************************)
EXTENDS Naturals, FiniteSets

\* ------------------------------------------------------------- bounds
\* Number of requests made on the mutex in one run.
NReq == 3

\* Number of lock attempts that time out in a run of the timeout tests.
NTimed == 2

\* Width in bits of the ticket counters (usize in the source).
TicketBits == 3

Req == 1..NReq

\* The requests of tests::test_timeout: the holder of the guard (`co`), the
\* lock attempts wrapped in a timeout, and the lock() made after them.
Holder == 1
Final == 2
Timed == (Final + 1)..(Final + NTimed)

\* Every request of any run.
AllReq == Req \cup {Holder, Final} \cup Timed

\* The null pointer of the wake slot.
NoWaker == 0

RECURSIVE Pow2(_)
Pow2(n) == IF n = 0 THEN 1 ELSE 2 * Pow2(n - 1)

\* The number of values of a usize.
Modulus == Pow2(TicketBits)

\* AtomicUsize::fetch_add wraps around at the width of usize.
WrapAdd(x) == (x + 1) % Modulus

\* usize::checked_sub(1): None when id = 0.  None is modelled by a value no
\* counter can take, so Some(current) == None is never true.
NoTicket == Modulus
CheckedSub1(x) == IF x = 0 THEN NoTicket ELSE x - 1

VARIABLES
    mutex,        \* which type new() constructed: "Mutex" or "UnorderedMutex"
    state,        \* Mutex.state: the next ticket to issue
    current,      \* Mutex.current: the ticket being served
    is_acquired,  \* UnorderedMutex.is_acquired
    waker,        \* the wake slot: NoWaker or the request whose waker it holds
    data,         \* the payload (a counter)
    leaked,       \* a boxed waker was overwritten in the wake slot, never freed
    pc,           \* per request: where its future / guard stands
    id,           \* per request: MutexGuardFuture.id
    is_realized,  \* per request: the future's is_realized field
    futAlive,     \* per request: the future exists (created, not dropped)
    owned,        \* per request: made by lock_owned() rather than lock()
    woken,        \* per request: its task is scheduled to be polled
    tmp           \* per request: the payload value its task read

vars == <<mutex, state, current, is_acquired, waker, data, leaked,
          pc, id, is_realized, futAlive, owned, woken, tmp>>

\* A guard of request r exists (from Poll::Ready until its drop begins).
GuardAlive(r) == pc[r] \in {"guard", "read", "written"}

\* Request r abandoned its future before it was realized.
Cancelled(r) == pc[r] \in {"unlocking", "done"} /\ ~is_realized[r]

\* Request r is waiting: its future exists, unrealized and not dropped.
Waiting(r) == pc[r] \in {"pending", "storing"}

\* Mutex::new / UnorderedMutex::new, and no request made yet.
InitReq ==
    /\ pc = [r \in AllReq |-> "new"]
    /\ id = [r \in AllReq |-> 0]
    /\ is_realized = [r \in AllReq |-> FALSE]
    /\ futAlive = [r \in AllReq |-> FALSE]
    /\ owned = [r \in AllReq |-> FALSE]
    /\ woken = [r \in AllReq |-> FALSE]
    /\ tmp = [r \in AllReq |-> 0]

New(m) ==
    /\ mutex = m
    /\ state = 0
    /\ current = 0
    /\ is_acquired = FALSE
    /\ waker = NoWaker
    /\ data = 0
    /\ leaked = FALSE

Init == New("Mutex") /\ InitReq

\* Waker::wake on the waker of request w's task: the scheduler will poll the
\* task again.  Waking a task that no longer awaits the lock does nothing here.
Wake(w) ==
    IF w # NoWaker /\ Waiting(w)
    THEN woken' = [woken EXCEPT ![w] = TRUE]
    ELSE UNCHANGED woken

\* ------------------------------------------------- Mutex (ticket variant)

\* A faulty lock: state advances by two for one ticket issued.
LockAsSkip(r, o) ==
    /\ mutex = "Mutex"
    /\ pc[r] = "new"
    /\ id' = [id EXCEPT ![r] = state]
    /\ state' = WrapAdd(WrapAdd(state))
    /\ pc' = [pc EXCEPT ![r] = "pending"]
    /\ futAlive' = [futAlive EXCEPT ![r] = TRUE]
    /\ owned' = [owned EXCEPT ![r] = o]
    /\ woken' = [woken EXCEPT ![r] = TRUE]
    /\ UNCHANGED <<mutex, current, is_acquired, waker, data, leaked,
                   is_realized, tmp>>

\* Mutex::lock: the future takes state.fetch_add(1) as its id.
LockAs(r, o) ==
    /\ mutex = "Mutex"
    /\ pc[r] = "new"
    /\ id' = [id EXCEPT ![r] = state]
    /\ state' = WrapAdd(state)
    /\ pc' = [pc EXCEPT ![r] = "pending"]
    /\ futAlive' = [futAlive EXCEPT ![r] = TRUE]
    /\ owned' = [owned EXCEPT ![r] = o]
    /\ woken' = [woken EXCEPT ![r] = TRUE]
    /\ UNCHANGED <<mutex, current, is_acquired, waker, data,
                   leaked, is_realized, tmp>>

Lock(r) == LockAs(r, FALSE)

LockOwned(r) == LockAs(r, TRUE)

\* A faulty comparison: the request next in line is admitted as well.
PollOutcomeOffByOne(t, c) ==
    IF c = t \/ c = CheckedSub1(t) THEN "guard" ELSE "pending"

\* The outcome of the comparison in poll for a future with ticket t that
\* loaded c from current.
PollOutcome(t, c) ==
    IF c = t THEN "guard"
    ELSE IF c = CheckedSub1(t) THEN "storing"
    ELSE "pending"

\* MutexGuardFuture::poll / MutexOwnedGuardFuture::poll, first step: the load
\* of current and the comparison.  Ready marks the future realized and yields
\* the guard; next in line goes on to store the waker; otherwise Pending.
Poll(r) ==
    /\ mutex = "Mutex"
    /\ pc[r] = "pending"
    /\ futAlive[r]
    /\ pc' = [pc EXCEPT ![r] = PollOutcome(id[r], current)]
    /\ is_realized' =
           [is_realized EXCEPT ![r] = (PollOutcome(id[r], current) = "guard")]
    /\ woken' = [woken EXCEPT ![r] = FALSE]
    /\ UNCHANGED <<mutex, state, current, is_acquired, waker, data, leaked,
                   id, futAlive, owned, tmp>>

\* Mutex::store_waker, the second step of a poll that found itself next in
\* line: a plain store into the wake slot, then Poll::Pending.
StoreWaker(r) ==
    /\ mutex = "Mutex"
    /\ pc[r] = "storing"
    /\ waker' = r
    /\ leaked' = (leaked \/ waker # NoWaker)
    /\ pc' = [pc EXCEPT ![r] = "pending"]
    /\ UNCHANGED <<mutex, state, current, is_acquired, data,
                   id, is_realized, futAlive, owned, woken, tmp>>

\* A faulty release: current saturates at the largest ticket.
UnlockAddSaturating(r) ==
    /\ current' = IF current = Modulus - 1
                  THEN current
                  ELSE current + 1
    /\ pc' = [pc EXCEPT ![r] = "unlocking"]
    /\ UNCHANGED <<mutex, state, is_acquired, waker, data, leaked>>

\* A faulty release: current advances by two.
UnlockAddTwice(r) ==
    /\ current' = WrapAdd(WrapAdd(current))
    /\ pc' = [pc EXCEPT ![r] = "unlocking"]
    /\ UNCHANGED <<mutex, state, is_acquired, waker, data, leaked>>

\* Mutex::unlock, first step: current.fetch_add(1).
UnlockAdd(r) ==
    /\ current' = WrapAdd(current)
    /\ pc' = [pc EXCEPT ![r] = "unlocking"]
    /\ UNCHANGED <<mutex, state, is_acquired, waker, data, leaked>>

\* A faulty release: the wake slot is read, not taken, and keeps the waker.
UnlockWakeKeep(r) ==
    /\ mutex = "Mutex"
    /\ pc[r] = "unlocking"
    /\ waker' = waker
    /\ Wake(waker)
    /\ pc' = [pc EXCEPT ![r] = "done"]
    /\ UNCHANGED <<mutex, state, current, is_acquired, data, leaked,
                   id, is_realized, futAlive, owned, tmp>>

\* Mutex::unlock, second step: swap the wake slot with null and wake what
\* was in it.
UnlockWake(r) ==
    /\ mutex = "Mutex"
    /\ pc[r] = "unlocking"
    /\ waker' = NoWaker
    /\ Wake(waker)
    /\ pc' = [pc EXCEPT ![r] = "done"]
    /\ UNCHANGED <<mutex, state, current, is_acquired, data, leaked,
                   id, is_realized, futAlive, owned, tmp>>

\* Drop for MutexGuard / MutexOwnedGuard: unlock.
GuardDrop(r) ==
    /\ mutex = "Mutex"
    /\ GuardAlive(r)
    /\ UnlockAdd(r)
    /\ UNCHANGED <<id, is_realized, futAlive, owned, woken, tmp>>

\* A faulty drop: an abandoned ticket is never served.
FutureDropNoUnlock(r) ==
    /\ mutex = "Mutex"
    /\ futAlive[r]
    /\ pc[r] # "storing"
    /\ futAlive' = [futAlive EXCEPT ![r] = FALSE]
    /\ pc' = [pc EXCEPT ![r] = IF is_realized[r] THEN pc[r] ELSE "done"]
    /\ UNCHANGED <<mutex, state, current, is_acquired, waker, data, leaked,
                   id, is_realized, owned, woken, tmp>>

\* A faulty drop: a future that was realized releases as well.
FutureDropAlways(r) ==
    /\ mutex = "Mutex"
    /\ futAlive[r]
    /\ pc[r] # "storing"
    /\ futAlive' = [futAlive EXCEPT ![r] = FALSE]
    /\ current' = WrapAdd(current)
    /\ pc' = [pc EXCEPT ![r] = IF is_realized[r] THEN pc[r] ELSE "unlocking"]
    /\ UNCHANGED <<mutex, state, is_acquired, waker, data, leaked,
                   id, is_realized, owned, woken, tmp>>

\* Drop for MutexGuardFuture / MutexOwnedGuardFuture: unlock unless the
\* future was realized.  A future is not dropped in the middle of its poll.
FutureDrop(r) ==
    /\ mutex = "Mutex"
    /\ futAlive[r]
    /\ pc[r] # "storing"
    /\ futAlive' = [futAlive EXCEPT ![r] = FALSE]
    /\ IF ~is_realized[r]
       THEN UnlockAdd(r)
       ELSE UNCHANGED <<mutex, state, current, is_acquired, waker,
                        data, leaked, pc>>
    /\ UNCHANGED <<id, is_realized, owned, woken, tmp>>

\* Every operation of the ticket mutex, in any order: polls at any time.
Next ==
    \E r \in Req :
        \/ Lock(r)
        \/ LockOwned(r)
        \/ Poll(r)
        \/ StoreWaker(r)
        \/ GuardDrop(r)
        \/ FutureDrop(r)
        \/ UnlockWake(r)

Spec == Init /\ [][Next]_vars

\* The same with every request made by lock(): lock_owned() differs only in
\* how the future and the guard refer to the mutex (an Arc, not a borrow).
NextBorrowed ==
    \E r \in Req :
        \/ Lock(r)
        \/ Poll(r)
        \/ StoreWaker(r)
        \/ GuardDrop(r)
        \/ FutureDrop(r)
        \/ UnlockWake(r)

SpecBorrowed == Init /\ [][NextBorrowed]_vars

\* usize::max_value().
MaxTicket == Modulus - 1

\* tests::test_overflow sets both counters of a new mutex to the largest
\* usize; Mutex::new leaves them at 0.
InitWrap ==
    /\ mutex = "Mutex"
    /\ state \in {0, MaxTicket}
    /\ current = state
    /\ is_acquired = FALSE
    /\ waker = NoWaker
    /\ data = 0
    /\ leaked = FALSE
    /\ InitReq

SpecWrap == InitWrap /\ [][NextBorrowed]_vars

\* tests::test_overflow alone: both counters start at the largest usize, so
\* the second ticket issued is 0.
InitOverflow ==
    /\ mutex = "Mutex"
    /\ state = MaxTicket
    /\ current = MaxTicket
    /\ is_acquired = FALSE
    /\ waker = NoWaker
    /\ data = 0
    /\ leaked = FALSE
    /\ InitReq

SpecOverflow == InitOverflow /\ [][NextBorrowed]_vars

\* A poll made by the scheduler: the task is polled when first awaited and
\* afterwards only once its waker was invoked.
SchedPoll(r) == woken[r] /\ Poll(r)

\* The ticket mutex under such a scheduler, cancellations included.
NextSched ==
    \E r \in Req :
        \/ Lock(r)
        \/ LockOwned(r)
        \/ SchedPoll(r)
        \/ StoreWaker(r)
        \/ GuardDrop(r)
        \/ FutureDrop(r)
        \/ UnlockWake(r)

\* A scheduled poll is made and runs to its end, an unlock that began ends,
\* and every guard is dropped in the end.  Nothing forces a lock() call or
\* a drop of a future.
FairSched ==
    \A r \in Req :
        /\ WF_vars(SchedPoll(r))
        /\ WF_vars(StoreWaker(r))
        /\ WF_vars(GuardDrop(r))
        /\ WF_vars(UnlockWake(r))

SpecSched == Init /\ [][NextSched]_vars /\ FairSched

\* One holder and one waiter.
Pair == {1, 2}

\* The drop of a future that resolved (the end of `.await`): no cancellation.
ResolvedDrop(r) == is_realized[r] /\ FutureDrop(r)

\* Two requests on the ticket mutex under the scheduler, no cancellation.
NextPair ==
    \E r \in Pair :
        \/ Lock(r)
        \/ LockOwned(r)
        \/ SchedPoll(r)
        \/ StoreWaker(r)
        \/ GuardDrop(r)
        \/ ResolvedDrop(r)
        \/ UnlockWake(r)

SpecPair == Init /\ [][NextPair]_vars /\ FairSched

\* Any number of requests on the ticket mutex under the scheduler, no
\* cancellation.
NextChain ==
    \E r \in Req :
        \/ Lock(r)
        \/ LockOwned(r)
        \/ SchedPoll(r)
        \/ StoreWaker(r)
        \/ GuardDrop(r)
        \/ ResolvedDrop(r)
        \/ UnlockWake(r)

SpecChain == Init /\ [][NextChain]_vars /\ FairSched

\* The ticket mutex with every request made by lock(), polls at any time
\* and no cancellation: a future is dropped only after it resolved.  The
\* counters start at 0 or at the largest usize.
NextNoCancel ==
    \E r \in Req :
        \/ Lock(r)
        \/ Poll(r)
        \/ StoreWaker(r)
        \/ GuardDrop(r)
        \/ ResolvedDrop(r)
        \/ UnlockWake(r)

SpecNoCancel == InitWrap /\ [][NextNoCancel]_vars

\* tests::test_timeout on the ticket mutex.  While the holder has its guard,
\* attempts are made, polled any number of times and dropped; once every
\* attempt made was dropped unrealized, the last lock() is issued, before or
\* after the holder drops its guard.
TimedSettled ==
    \A t \in Timed : pc[t] = "new" \/ (pc[t] = "done" /\ ~is_realized[t])

NextTimeout ==
    \/ Lock(Holder)
    \/ Poll(Holder)
    \/ TimedSettled /\ GuardDrop(Holder)
    \/ UnlockWake(Holder)
    \/ \E t \in Timed :
          \/ GuardAlive(Holder) /\ pc[Final] = "new" /\ Lock(t)
          \/ Poll(t)
          \/ StoreWaker(t)
          \/ GuardAlive(Holder) /\ ~is_realized[t] /\ FutureDrop(t)
          \/ UnlockWake(t)
    \/ pc[Holder] \notin {"new", "pending"} /\ TimedSettled /\ Lock(Final)
    \/ Poll(Final)
    \/ StoreWaker(Final)

SpecTimeout == Init /\ [][NextTimeout]_vars

\* ------------------------------------------------------- UnorderedMutex

InitU == New("UnorderedMutex") /\ InitReq

\* UnorderedMutex::lock / lock_owned: the future is built without touching
\* the mutex.
ULockAs(r, o) ==
    /\ mutex = "UnorderedMutex"
    /\ pc[r] = "new"
    /\ pc' = [pc EXCEPT ![r] = "pending"]
    /\ futAlive' = [futAlive EXCEPT ![r] = TRUE]
    /\ owned' = [owned EXCEPT ![r] = o]
    /\ woken' = [woken EXCEPT ![r] = TRUE]
    /\ UNCHANGED <<mutex, state, current, is_acquired, waker, data, leaked,
                   id, is_realized, tmp>>

ULock(r) == ULockAs(r, FALSE)

ULockOwned(r) == ULockAs(r, TRUE)

\* UnorderedMutexGuardFuture::poll / UnorderedMutexOwnedGuardFuture::poll,
\* first step: is_acquired.swap(true).  A swap that returned false realizes
\* the future and yields the guard; otherwise the poll goes on to store the
\* waker.
UPoll(r) ==
    /\ mutex = "UnorderedMutex"
    /\ pc[r] = "pending"
    /\ futAlive[r]
    /\ is_acquired' = TRUE
    /\ pc' = [pc EXCEPT ![r] = IF is_acquired THEN "storing" ELSE "guard"]
    /\ is_realized' = [is_realized EXCEPT ![r] = ~is_acquired]
    /\ woken' = [woken EXCEPT ![r] = FALSE]
    /\ UNCHANGED <<mutex, state, current, waker, data, leaked,
                   id, futAlive, owned, tmp>>

\* A faulty registration: an occupied wake slot keeps the waker it holds.
UStoreWakerIfEmpty(r) ==
    /\ mutex = "UnorderedMutex"
    /\ pc[r] = "storing"
    /\ waker' = IF waker = NoWaker THEN r ELSE waker
    /\ pc' = [pc EXCEPT ![r] = "pending"]
    /\ UNCHANGED <<mutex, state, current, is_acquired, data, leaked,
                   id, is_realized, futAlive, owned, woken, tmp>>

\* UnorderedMutex::store_waker, the second step of a poll whose swap returned
\* true: a plain store into the wake slot, then Poll::Pending.
UStoreWaker(r) ==
    /\ mutex = "UnorderedMutex"
    /\ pc[r] = "storing"
    /\ waker' = r
    /\ leaked' = (leaked \/ waker # NoWaker)
    /\ pc' = [pc EXCEPT ![r] = "pending"]
    /\ UNCHANGED <<mutex, state, current, is_acquired, data,
                   id, is_realized, futAlive, owned, woken, tmp>>

\* UnorderedMutex::unlock, first step: is_acquired.store(false).
UUnlockStore(r) ==
    /\ is_acquired' = FALSE
    /\ pc' = [pc EXCEPT ![r] = "unlocking"]
    /\ UNCHANGED <<mutex, state, current, waker, data, leaked>>

\* A faulty release: the wake slot is read, not taken, and keeps the waker.
UUnlockWakeKeep(r) ==
    /\ mutex = "UnorderedMutex"
    /\ pc[r] = "unlocking"
    /\ waker' = waker
    /\ Wake(waker)
    /\ pc' = [pc EXCEPT ![r] = "done"]
    /\ UNCHANGED <<mutex, state, current, is_acquired, data, leaked,
                   id, is_realized, futAlive, owned, tmp>>

\* UnorderedMutex::unlock, second step: swap the wake slot with null and wake
\* what was in it.
UUnlockWake(r) ==
    /\ mutex = "UnorderedMutex"
    /\ pc[r] = "unlocking"
    /\ waker' = NoWaker
    /\ Wake(waker)
    /\ pc' = [pc EXCEPT ![r] = "done"]
    /\ UNCHANGED <<mutex, state, current, is_acquired, data, leaked,
                   id, is_realized, futAlive, owned, tmp>>

\* Drop for UnorderedMutexGuard / UnorderedMutexOwnedGuard: unlock.
UGuardDrop(r) ==
    /\ mutex = "UnorderedMutex"
    /\ GuardAlive(r)
    /\ UUnlockStore(r)
    /\ UNCHANGED <<id, is_realized, futAlive, owned, woken, tmp>>

\* Drop for UnorderedMutexGuardFuture / UnorderedMutexOwnedGuardFuture: unlock
\* unless the future was realized.
UFutureDrop(r) ==
    /\ mutex = "UnorderedMutex"
    /\ futAlive[r]
    /\ pc[r] # "storing"
    /\ futAlive' = [futAlive EXCEPT ![r] = FALSE]
    /\ IF ~is_realized[r]
       THEN UUnlockStore(r)
       ELSE UNCHANGED <<mutex, state, current, is_acquired, waker,
                        data, leaked, pc>>
    /\ UNCHANGED <<id, is_realized, owned, woken, tmp>>

\* Every operation of the unordered mutex, in any order: polls at any time.
NextU ==
    \E r \in Req :
        \/ ULock(r)
        \/ ULockOwned(r)
        \/ UPoll(r)
        \/ UStoreWaker(r)
        \/ UGuardDrop(r)
        \/ UFutureDrop(r)
        \/ UUnlockWake(r)

SpecU == InitU /\ [][NextU]_vars

USchedPoll(r) == woken[r] /\ UPoll(r)

UResolvedDrop(r) == is_realized[r] /\ UFutureDrop(r)

\* Two requests on the unordered mutex under the scheduler, no cancellation.
NextUPair ==
    \E r \in Pair :
        \/ ULock(r)
        \/ ULockOwned(r)
        \/ USchedPoll(r)
        \/ UStoreWaker(r)
        \/ UGuardDrop(r)
        \/ UResolvedDrop(r)
        \/ UUnlockWake(r)

UFairSched ==
    \A r \in Req :
        /\ WF_vars(USchedPoll(r))
        /\ WF_vars(UStoreWaker(r))
        /\ WF_vars(UGuardDrop(r))
        /\ WF_vars(UUnlockWake(r))

SpecUPair == InitU /\ [][NextUPair]_vars /\ UFairSched

\* tests::test_timeout on the unordered mutex: as NextTimeout; an attempt is
\* dropped after it was polled and before it is polled again.
NextUTimeout ==
    \/ ULock(Holder)
    \/ UPoll(Holder)
    \/ TimedSettled /\ UGuardDrop(Holder)
    \/ UUnlockWake(Holder)
    \/ \E t \in Timed :
          \/ GuardAlive(Holder) /\ pc[Final] = "new" /\ ULock(t)
          \/ UPoll(t)
          \/ UStoreWaker(t)
          \/ /\ GuardAlive(Holder)
             /\ ~is_realized[t]
             /\ ~woken[t]
             /\ UFutureDrop(t)
          \/ UUnlockWake(t)
    \/ pc[Holder] \notin {"new", "pending"} /\ TimedSettled /\ ULock(Final)
    \/ UPoll(Final)
    \/ UStoreWaker(Final)

SpecUTimeout == InitU /\ [][NextUTimeout]_vars

\* --------------------------------------------------------- either variant

\* Every operation of the unordered mutex with every request made by lock().
NextUBorrowed ==
    \E r \in Req :
        \/ ULock(r)
        \/ UPoll(r)
        \/ UStoreWaker(r)
        \/ UGuardDrop(r)
        \/ UFutureDrop(r)
        \/ UUnlockWake(r)

\* A mutex of either type.
InitAny == (New("Mutex") \/ New("UnorderedMutex")) /\ InitReq

\* Every operation of the mutex constructed, in any order, cancellations
\* included.
NextAny == NextBorrowed \/ NextUBorrowed

SpecAny == InitAny /\ [][NextAny]_vars

\* A task locks again while it holds a guard: it obtains the guard of request
\* Holder, keeps it, and then awaits request Final on the same mutex.  The
\* requests of the other tasks lock, poll, release and cancel in any order.
Others == AllReq \ {Holder, Final}

NextReentrant ==
    \/ Lock(Holder)
    \/ ULock(Holder)
    \/ Poll(Holder)
    \/ UPoll(Holder)
    \/ StoreWaker(Holder)
    \/ UStoreWaker(Holder)
    \/ GuardAlive(Holder) /\ Lock(Final)
    \/ GuardAlive(Holder) /\ ULock(Final)
    \/ Poll(Final)
    \/ UPoll(Final)
    \/ StoreWaker(Final)
    \/ UStoreWaker(Final)
    \/ \E r \in Others :
          \/ Lock(r)
          \/ ULock(r)
          \/ Poll(r)
          \/ UPoll(r)
          \/ StoreWaker(r)
          \/ UStoreWaker(r)
          \/ GuardDrop(r)
          \/ UGuardDrop(r)
          \/ FutureDrop(r)
          \/ UFutureDrop(r)
          \/ UnlockWake(r)
          \/ UUnlockWake(r)

SpecReentrant == InitAny /\ [][NextReentrant]_vars

\* ------------------------------------------------------- increment race

\* Deref for the guard, the first half of `*co += 1`: the task reads the
\* payload through its guard.
DerefRead(r) ==
    /\ pc[r] = "guard"
    /\ tmp' = [tmp EXCEPT ![r] = data]
    /\ pc' = [pc EXCEPT ![r] = "read"]
    /\ UNCHANGED <<mutex, state, current, is_acquired, waker, data, leaked,
                   id, is_realized, futAlive, owned, woken>>

\* DerefMut for the guard, the second half of `*co += 1`: the task writes
\* the value it read, plus one.
DerefWrite(r) ==
    /\ pc[r] = "read"
    /\ data' = tmp[r] + 1
    /\ pc' = [pc EXCEPT ![r] = "written"]
    /\ UNCHANGED <<mutex, state, current, is_acquired, waker, leaked,
                   id, is_realized, futAlive, owned, woken, tmp>>

\* `c.lock().await` drops the future, a temporary, as soon as it resolved:
\* the task reads the payload after that.
IncRead(r) == ~futAlive[r] /\ DerefRead(r)

\* The end of the task's scope: the guard is dropped after the increment.
IncGuardDrop(r) == pc[r] = "written" /\ GuardDrop(r)

UIncGuardDrop(r) == pc[r] = "written" /\ UGuardDrop(r)

\* tests::test_mutex, test_owned_mutex, multithreading_test: every task
\* locks, increments the payload and drops its guard; no future is cancelled.
\* The mutex is of either type.
InitInc == (New("Mutex") \/ New("UnorderedMutex")) /\ InitReq

NextInc ==
    \E r \in Req :
        \/ Lock(r)
        \/ LockOwned(r)
        \/ Poll(r)
        \/ StoreWaker(r)
        \/ IncGuardDrop(r)
        \/ ResolvedDrop(r)
        \/ UnlockWake(r)
        \/ ULock(r)
        \/ ULockOwned(r)
        \/ UPoll(r)
        \/ UStoreWaker(r)
        \/ UIncGuardDrop(r)
        \/ UResolvedDrop(r)
        \/ UUnlockWake(r)
        \/ IncRead(r)
        \/ DerefWrite(r)

SpecInc == InitInc /\ [][NextInc]_vars

\* ----------------------------------------------------------------- claims

\* C1: ticket mutex, under any interleaving of lock()/lock_owned() calls,
\* polls, guard drops and drops of unrealized futures: at most one guard of
\* the mutex is alive.
AtMostOneGuard == Cardinality({r \in Req : GuardAlive(r)}) <= 1

\* C4: ticket mutex FIFO: while a request A with the smaller ticket is still
\* waiting (not realized, not cancelled), no request B with a larger ticket
\* has obtained a guard.
TicketFifo ==
    \A a, b \in Req :
        (Waiting(a) /\ pc[b] # "new" /\ id[a] < id[b]) => ~is_realized[b]

\* C5: ticket mutex, abandoned-ticket liveness: once a future was dropped
\* unrealized, every waiting request with a ticket issued after the abandoned
\* one eventually obtains a guard (unless it is abandoned itself).
AbandonedTicketLive ==
    \A a, b \in Req :
        (Cancelled(a) /\ Waiting(b) /\ id[a] < id[b])
            ~> (is_realized[b] \/ Cancelled(b))

\* C6: ticket mutex, one holder and one waiter, no cancellation, polls only
\* when first awaited or woken: the waiter eventually obtains the guard, in
\* every interleaving of the steps of its poll with those of the release.
PairWaiterAcquires ==
    \A h, w \in Pair : (GuardAlive(h) /\ Waiting(w)) ~> is_realized[w]

\* C7: unordered mutex, one holder and one waiter, no cancellation, polls only
\* when first awaited or woken: a waiter whose poll found the flag set
\* eventually obtains the guard, in every interleaving of the steps of its
\* poll with those of the release.
UPairWaiterAcquires ==
    \A w \in Pair : (pc[w] = "storing") ~> is_realized[w]

\* Every task of the run has released its guard.
AllDone == \A r \in Req : pc[r] = "done"

\* C8: increment race, either variant, no cancellation: once all N tasks
\* have locked, incremented and released, the payload is exactly N.
IncrementExact == AllDone => data = NReq

\* C8 witness: all tasks of a run on the unordered mutex have finished, at
\* least one of them through an owned guard.
IncrementWitness ==
    AllDone /\ mutex = "UnorderedMutex" /\ (\E r \in Req : owned[r])

\* C9: ticket mutex timeout safety: after any number of attempts made and
\* dropped unrealized while the holder has its guard, a lock() issued
\* afterwards is not realized while the holder's guard is alive, and once the
\* holder has released, a poll of it yields the guard.
TimeoutSafe ==
    /\ is_realized[Final] => ~GuardAlive(Holder)
    /\ (pc[Final] = "pending" /\ pc[Holder] \in {"unlocking", "done"})
           => PollOutcome(id[Final], current) = "guard"

\* C9 witness: both attempts were polled and dropped unrealized, and the last
\* lock() resolved after the holder's release.
TimeoutWitness ==
    /\ \A t \in Timed : Cancelled(t) /\ pc[t] = "done" /\ ~woken[t]
    /\ pc[Holder] = "done"
    /\ GuardAlive(Final)

\* C10: unordered mutex timeout safety: after any number of attempts polled
\* and dropped unrealized while the holder has its guard, a lock() issued
\* afterwards is not realized while the holder's guard is alive, and once the
\* holder has released, a poll of it yields the guard.
UTimeoutSafe ==
    /\ is_realized[Final] => ~GuardAlive(Holder)
    /\ (pc[Final] = "pending" /\ pc[Holder] \in {"unlocking", "done"})
           => ~is_acquired

\* C2: unordered mutex, under any interleaving of lock()/lock_owned() calls,
\* polls, guard drops and drops of unrealized futures: at most one guard of
\* the mutex is alive.
UAtMostOneGuard ==
    \A a, b \in Req : (GuardAlive(a) /\ GuardAlive(b)) => a = b

\* C3: unordered mutex: is_acquired is true if and only if a guard of the
\* mutex is alive.
LockedIffGuard == is_acquired <=> (\E r \in Req : GuardAlive(r))


\* C11: unordered mutex: the drop of a future that was not realized leaves
\* is_acquired and the wake slot exactly as they were before the drop.
UCancelNoEffect ==
    [][\A r \in Req :
          (futAlive[r] /\ ~futAlive'[r] /\ ~is_realized[r])
              => (is_acquired' = is_acquired /\ waker' = waker)]_vars

\* The request made its one call of unlock(): its future was dropped
\* unrealized, or the guard it resolved into was dropped.
Released(r) == pc[r] \in {"unlocking", "done"}

\* C12: ticket mutex release accounting: current has advanced exactly once
\* for every request that dropped its unrealized future or its guard, and not
\* at all for the others; a request whose future is gone and that has no
\* guard has made its advance, and the drop of a realized future made none.
ReleaseAccounting ==
    /\ current = Cardinality({r \in Req : Released(r)}) % Modulus
    /\ \A r \in Req :
          (pc[r] # "new" /\ ~futAlive[r] /\ ~GuardAlive(r)) => Released(r)
    /\ \A r \in Req : Released(r) => (is_realized[r] \/ ~futAlive[r])

\* C12 witness: one request was cancelled while another one's release was
\* between its two steps, and a third dropped its realized future and holds
\* its guard.
ReleaseAccountingWitness ==
    \E a, b, c \in Req :
        /\ Cancelled(a) /\ pc[a] = "done"
        /\ is_realized[b] /\ pc[b] = "unlocking"
        /\ is_realized[c] /\ ~futAlive[c] /\ GuardAlive(c)

\* C13: wake-slot registration, both variants: a store into an occupied slot
\* disposes of the callback it replaces, so no boxed waker is ever left
\* allocated with no pointer to it.
NoWakerLeaked == ~leaked

\* C14: wake-slot delivery, both variants: the second step of a release
\* leaves the wake slot empty, and a waker is invoked only by a step that
\* took it out of the slot and left the slot empty, so a stored waker is
\* not delivered a second time by a later release or cancellation.
WakeDelivery ==
    [][/\ \A r \in Req :
             (pc[r] = "unlocking" /\ pc'[r] = "done") => waker' = NoWaker
       /\ \A w \in Req :
             (pc[w] # "new" /\ ~woken[w] /\ woken'[w])
                 => (waker = w /\ waker' = NoWaker)]_vars

\* C14 witness: after a registration replaced another, a release took the
\* waker out of the slot and woke a waiter, and a cancellation finished.
WakeDeliveryWitness ==
    /\ leaked
    /\ waker = NoWaker
    /\ \E a \in Req : Cancelled(a) /\ pc[a] = "done"
    /\ \E w \in Req : pc[w] = "pending" /\ woken[w]

\* The tickets returned by the lock() calls made so far.
Issued == {id[r] : r \in {q \in Req : pc[q] # "new"}}

\* C15: ticket mutex: in every reachable state current equals a ticket that
\* has been issued.
ServingIssued == current \in Issued

\* C15, amended: in every reachable state current equals a ticket that has
\* been issued, or the ticket the next lock() call will issue.
ServingIssuedOrNext == current \in Issued \cup {state}

\* C15 witness: every ticket issued has been released, one of them by a
\* cancellation, and current stands at the ticket not yet issued.
ServingNextWitness ==
    /\ state = NReq
    /\ current = state
    /\ \E a \in Req : Cancelled(a)

\* The value both counters had when the first lock() call was made: state
\* has advanced once per ticket issued since (n tickets, counters modulo p).
Base(n, p) == (state + p - n) % p

\* The position of the request with ticket t in the order of the lock()
\* calls, from 0.
Seq(t, n, p) == (t + p - Base(n, p)) % p

\* C16: ticket counters starting at 0 or at 2^w - 1: the tickets issued are
\* consecutive modulo 2^w, current has advanced modulo 2^w once per release,
\* a poll admits exactly the request whose position equals the number of
\* releases (so the first lock() resolves on its first poll), and while no
\* future was cancelled a request is admitted only after every request
\* issued before it has released: nothing depends on where the counters
\* started.
WrapOrder ==
    LET p == Modulus
        n == Cardinality({q \in Req : pc[q] # "new"})
        released == Cardinality({q \in Req : Released(q)})
    IN  /\ \A r \in Req : pc[r] # "new" => Seq(id[r], n, p) < n
        /\ current = (Base(n, p) + released) % p
        /\ \A r \in Req :
              pc[r] = "pending" =>
                  ((PollOutcome(id[r], current) = "guard")
                      <=> (Seq(id[r], n, p) = released))
        /\ (\A r \in Req : ~Cancelled(r)) =>
              \A a, b \in Req :
                  (is_realized[b] /\ pc[a] # "new"
                      /\ Seq(id[a], n, p) < Seq(id[b], n, p))
                          => Released(a)

\* C16 witness: the counters started at 2^w - 1; the requests with tickets
\* 2^w - 1 and 0 obtained the guard and released, and the request with
\* ticket 1 holds the guard; no future was cancelled.
WrapOrderWitness ==
    \E a, b, c \in Req :
        /\ id[a] = MaxTicket /\ is_realized[a] /\ pc[a] = "done"
        /\ id[b] = 0 /\ is_realized[b] /\ pc[b] = "done"
        /\ id[c] = 1 /\ GuardAlive(c)
        /\ state = 2 /\ current = 1

\* C17: ticket poll contract: a poll of an unrealized future with ticket t
\* while current is s changes neither counter nor the wake slot by itself
\* and (i) if t = s, yields the guard and marks the future realized; (ii) if
\* t is one past s modulo 2^w, goes on to store the waker and is Pending;
\* (iii) otherwise is Pending and stores nothing.
PollContract ==
    [][\A r \in Req :
          Poll(r) =>
              /\ UNCHANGED <<state, current, waker>>
              /\ IF id[r] = current
                 THEN pc'[r] = "guard" /\ is_realized'[r]
                 ELSE /\ ~is_realized'[r]
                      /\ pc'[r] = IF id[r] = WrapAdd(current)
                                  THEN "storing" ELSE "pending"]_vars

\* C18: ticket mutex, three or more requests, no cancellation, polls only
\* when first awaited or woken, every guard eventually dropped: a request
\* that was polled while its ticket was more than one past current, and so
\* stored no waker, eventually obtains the guard.
NotNextWaiterAcquires ==
    \A r \in Req :
        (/\ pc[r] = "pending"
         /\ ~woken[r]
         /\ id[r] # current
         /\ id[r] # WrapAdd(current)) ~> is_realized[r]

\* C19: re-entrant locking, either variant: the second lock() of a task that
\* keeps its first guard is never realized, whatever the other tasks do
\* (lock, release, cancel).
ReentrantNeverAcquires == ~is_realized[Final]

\* C20: unordered mutex with several waiters: a registration puts the
\* registering waiter into the wake slot whatever the slot held, and the
\* second step of a release changes the scheduling of no task but the one
\* in the slot, which it wakes: the waiter registered last, and no waiter
\* registered before it.
LastRegisteredWoken ==
    [][/\ \A r \in Req :
             (pc[r] = "storing" /\ pc'[r] = "pending") => waker' = r
       /\ \A h \in Req :
             (pc[h] = "unlocking" /\ pc'[h] = "done") =>
                 \A w \in Req :
                     woken'[w] # woken[w] => (w = waker /\ woken'[w])]_vars

\* C20 witness: two waiters registered while the guard was held, the second
\* registration replacing the first; the release woke the waiter registered
\* last and left the one registered first unscheduled.
LastRegisteredWitness ==
    \E h, a, b \in Req :
        /\ is_realized[h] /\ pc[h] = "done"
        /\ leaked
        /\ waker = NoWaker
        /\ ~is_acquired
        /\ pc[a] = "pending" /\ ~woken[a]
        /\ pc[b] = "pending" /\ woken[b]

\* The requests that hold a ticket not yet given back: issued, and neither
\* cancelled nor with their guard dropped.
Outstanding == {r \in Req : pc[r] # "new" /\ ~Released(r)}

\* C21: ticket mutex counter invariant: state minus current, modulo 2^w, is
\* the number of outstanding requests, so current never overtakes state and
\* the two are equal exactly when no request is outstanding.
CounterDistance ==
    LET p == Modulus
    IN  /\ (state + p - current) % p = Cardinality(Outstanding)
        /\ (state = current) <=> (Outstanding = {})

\* C21 witness: the counters started at 2^w - 1 and both have wrapped: the
\* request with ticket 2^w - 1 was cancelled, one request holds the guard
\* and one waits.
CounterDistanceWitness ==
    \E h, w, c \in Req :
        /\ Cancelled(c) /\ id[c] = MaxTicket
        /\ GuardAlive(h)
        /\ Waiting(w)
        /\ current < id[c] /\ state < id[c]

\* C22: ticket mutex, no future ever cancelled: before and after every
\* step, the ticket of a request whose guard is alive equals current, and a
\* step changes current only by dropping the guard of the request whose
\* ticket current was.
GuardServes ==
    [][/\ \A r \in Req : GuardAlive(r) => id[r] = current
       /\ \A r \in Req : GuardAlive(r)' => id'[r] = current'
       /\ current' # current =>
             \E r \in Req :
                 /\ GuardAlive(r)
                 /\ ~GuardAlive(r)'
                 /\ id[r] = current]_vars

\* C22 witness: after an earlier guard was dropped, the request whose ticket
\* current reached holds the guard while another request waits.
GuardServesWitness ==
    \E g, h, w \in Req :
        /\ is_realized[g] /\ pc[g] = "done"
        /\ GuardAlive(h) /\ id[h] = current /\ id[h] = WrapAdd(id[g])
        /\ Waiting(w)

\* No guard is alive, no future is unresolved, and no poll or release is in
\* progress: every request is yet to be made or has finished.
Quiescent == \A r \in Req : pc[r] \in {"new", "done"}

\* C23: quiescent wake slot, both variants: when the mutex is quiescent the
\* wake slot is empty, and the slot never holds the waker of a request that
\* has completed or been cancelled.
QuiescentSlotEmpty ==
    /\ Quiescent => waker = NoWaker
    /\ waker # NoWaker => pc[waker] # "done"

\* C23 witness: every request has finished, one of them cancelled, after
\* wakers were stored in the slot more than once.
QuiescentWitness ==
    /\ AllDone
    /\ leaked
    /\ \E c \in Req : Cancelled(c)
    /\ \E g \in Req : is_realized[g]

=============================================================================
